---- MODULE Spec2Model ----
(***************************************************************************)
(* Model of mc-oblivious-ram/src/evictor.rs: the branch selectors, the     *)
(* Path ORAM greedy eviction and the Circuit ORAM branch preparation       *)
(* (prepare_deepest / prepare_target) with their test references.          *)
(***************************************************************************)
EXTENDS Integers, Sequences, FiniteSets, TLC

(***************************************************************************)
(* Bounds of the model.                                                    *)
(***************************************************************************)
\* Largest tree height given to PathOramDeterministicEvictor::new.
MaxHeight == 4
\* Largest number_of_additional_branches_to_evict given to new.
MaxAdditional == 1
\* Number of whole periods of 2^MaxHeight calls a selector run may span.
MaxPeriods == 2
\* Height of the tree a branch is checked out of: a branch has
\* BranchHeight + 1 buckets.
BranchHeight == 2
\* Slots per bucket (the type parameter Z).
Z == 2
\* Largest stash length.
MaxStash == 2
\* Largest number of consecutive evict_from_stash_to_branch calls.
MaxEvictions == 2
\* Largest number of get_next_branch_to_evict calls on a random evictor.
MaxRandomCalls == 2
\* Largest number of get_number_of_additional_branches_to_evict calls.
MaxCountCalls == 2

(***************************************************************************)
(* Program constants.                                                      *)
(***************************************************************************)
\* Width of u64, as in `64 - num_bits_to_be_reversed`.
U64_BITS == 64
\* usize::MAX, cut to the integers TLC has: the code only uses that it is
\* above every bucket index.
FLOOR_INDEX == 2147483647

VARIABLES
    \* which evictor was made: "deterministic" or "random"
    selector,
    \* the fields of the evictor (tree_breadth: the deterministic one only)
    number_of_additional_branches_to_evict,
    branches_evicted,
    tree_height,
    tree_breadth,
    \* the number of additional branches the evictor was made with
    configured,
    \* values returned so far by get_number_of_additional_branches_to_evict
    counts_returned,
    \* leaves returned so far by get_next_branch_to_evict, oldest first
    returned,
    \* TRUE once a call has panicked (the process has aborted)
    panicked,
    \* BranchCheckout fields: the leaf and, per bucket (0 = the leaf bucket),
    \* the Z payloads and the Z metadata records
    leaf,
    branch_data,
    branch_meta,
    \* the stash: payloads and metadata records
    stash_data,
    stash_meta,
    \* results of prepare_deepest and prepare_target (<<>> before the call)
    deepest_meta,
    target_meta,
    \* the last operation applied, and how many evictions were made
    pc,
    evictions,
    \* stash and branch as they were when the last eviction was called
    pre,
    \* what the last operation touched, in order: the calls it made on the
    \* branch and the array positions it visited
    accesses,
    \* test_deterministic_oram_get_branches_to_evict: the height it calls the
    \* pure function with, and the leaves it got for iterations 0, 1, 2, ...
    test_height,
    test_branches

sel_vars == <<selector, number_of_additional_branches_to_evict, branches_evicted,
              tree_height, tree_breadth, configured, counts_returned,
              returned, panicked>>

oram_vars == <<leaf, branch_data, branch_meta, stash_data, stash_meta,
               deepest_meta, target_meta, pc, evictions, pre, accesses>>

test_vars == <<test_height, test_branches>>

vars == <<sel_vars, oram_vars, test_vars>>

(***************************************************************************)
(* Integer helpers: u64 arithmetic on the values the model reaches.        *)
(***************************************************************************)
RECURSIVE Pow2(_)
Pow2(n) == IF n = 0 THEN 1 ELSE 2 * Pow2(n - 1)

\* a ^ b of Rust (bitwise exclusive or) on naturals.
RECURSIVE BitXor(_, _)
BitXor(a, b) ==
    IF a = 0 THEN b
    ELSE IF b = 0 THEN a
    ELSE (((a % 2) + (b % 2)) % 2) + 2 * BitXor(a \div 2, b \div 2)

\* Bit i of a value below 2^30 seen as a u64.
Bit(x, i) == IF i >= 30 THEN 0 ELSE (x \div Pow2(i)) % 2

\* u64::reverse_bits, as the array of the 64 result bits (index 0 = lowest).
reverse_bits(x) == [j \in 0..(U64_BITS - 1) |-> Bit(x, (U64_BITS - 1) - j)]

\* bits >> k on a u64 held as a bit array.
ShiftRight(bits, k) ==
    [j \in 0..(U64_BITS - 1) |-> IF j + k <= U64_BITS - 1 THEN bits[j + k] ELSE 0]

\* The number a bit array stands for (only reached for values below 2^30).
RECURSIVE BitsToNat(_, _)
BitsToNat(bits, j) ==
    IF j > U64_BITS - 1 THEN 0
    ELSE (IF bits[j] = 1 THEN Pow2(j) ELSE 0) + BitsToNat(bits, j + 1)

(***************************************************************************)
(* Blocks, buckets and the legal-placement relation (path_oram.rs and      *)
(* balanced_tree_index, used here through their interface).                *)
(***************************************************************************)
\* Arrays are functions on 0..len-1, as the code indexes them.
Length(a) == Cardinality(DOMAIN a)

\* A metadata record that was never written (A8Bytes::default()).
DefaultMeta == [block_num |-> 0, leaf_num |-> 0]

\* A payload that was never written (A64Bytes::default()).
DefaultData == <<>>

meta_leaf_num(meta) == meta.leaf_num

\* A slot is vacant when its leaf number is 0.
meta_is_vacant(meta) == meta_leaf_num(meta) = 0

\* meta_set_vacant(condition, meta): clears the leaf number only.
meta_set_vacant(condition, meta) ==
    IF condition THEN [meta EXCEPT !.leaf_num = 0] ELSE meta

\* TreeIndex::height: the position of the highest set bit.
RECURSIVE height(_)
height(x) == IF x <= 1 THEN 0 ELSE 1 + height(x \div 2)

\* 64 - leading_zeros(x).
RECURSIVE BitLength(_)
BitLength(x) == IF x = 0 THEN 0 ELSE 1 + BitLength(x \div 2)

\* TreeIndex::common_ancestor_height.
common_ancestor_height(a, b) ==
    LET ht_min == IF height(a) < height(b) THEN height(a) ELSE height(b)
        adjusted_a == a \div Pow2(height(a) - ht_min)
        adjusted_b == b \div Pow2(height(b) - ht_min)
    IN  ht_min - BitLength(BitXor(adjusted_a, adjusted_b))

\* BranchCheckout::lowest_height_legal_index_impl: the deepest bucket of the
\* branch of `branch_leaf` a block bound for `query` may occupy; a vacant
\* record (query 0) is treated as bound for the root.
lowest_height_legal_index_impl(query, branch_leaf, data_len) ==
    LET tree_index == IF query = 0 THEN 1 ELSE query
    IN  data_len - 1 - common_ancestor_height(branch_leaf, tree_index)

(***************************************************************************)
(* Circuit ORAM branch preparation.                                        *)
(***************************************************************************)
\* update_goal_for_elem without the `& !meta_is_vacant(elem)` term.
update_goal_for_elem_ignoring_vacancy(sg, elem, bucket_num, branch_leaf, meta_len) ==
    LET elem_destination ==
            lowest_height_legal_index_impl(meta_leaf_num(elem), branch_leaf, meta_len)
        is_elem_deeper ==
            /\ elem_destination < sg.goal
            /\ elem_destination < bucket_num
    IN  [goal |-> IF is_elem_deeper THEN elem_destination ELSE sg.goal,
         src  |-> IF is_elem_deeper THEN bucket_num ELSE sg.src]

\* The body of the slot loop of update_goal_and_deepest_for_a_single_bucket
\* for one slot; sg = [src, goal].
update_goal_for_elem(sg, elem, bucket_num, branch_leaf, meta_len) ==
    LET elem_destination ==
            lowest_height_legal_index_impl(meta_leaf_num(elem), branch_leaf, meta_len)
        is_elem_deeper ==
            /\ elem_destination < sg.goal
            /\ elem_destination < bucket_num
            /\ ~meta_is_vacant(elem)
    IN  [goal |-> IF is_elem_deeper THEN elem_destination ELSE sg.goal,
         src  |-> IF is_elem_deeper THEN bucket_num ELSE sg.src]

\* The iterations of a `for` loop run one after the other: the state the
\* iteration leaves (first) is computed before the remaining ones (rest).
Sequenced(first, rest) == IF first = first THEN rest ELSE rest

\* The slot loop `for elem in src_meta`, from slot idx on.
RECURSIVE update_goal_elems(_, _, _, _, _, _)
update_goal_elems(sg, idx, bucket_num, src_meta, branch_leaf, meta_len) ==
    IF idx >= Length(src_meta) THEN sg
    ELSE LET next == update_goal_for_elem(sg, src_meta[idx], bucket_num, branch_leaf, meta_len)
         IN  Sequenced(next, update_goal_elems(
                 next, idx + 1, bucket_num, src_meta, branch_leaf, meta_len))

\* update_goal_and_deepest_for_a_single_bucket taking the source only for a
\* bucket strictly above the goal (`goal < bucket_num`).
update_goal_and_deepest_for_a_single_bucket_above_goal(st, bucket_num, src_meta, branch_leaf, meta_len) ==
    LET should_take_src_for_deepest == st.goal < bucket_num
        deepest == [st.deepest_meta EXCEPT
                       ![bucket_num] = IF should_take_src_for_deepest THEN st.src ELSE @]
        sg == update_goal_elems([src |-> st.src, goal |-> st.goal], 0,
                                bucket_num, src_meta, branch_leaf, meta_len)
    IN  [src |-> sg.src, goal |-> sg.goal, deepest_meta |-> deepest]

\* st = [src, goal, deepest_meta].
update_goal_and_deepest_for_a_single_bucket(st, bucket_num, src_meta, branch_leaf, meta_len) ==
    LET should_take_src_for_deepest == ~(bucket_num < st.goal)
        deepest == [st.deepest_meta EXCEPT
                       ![bucket_num] = IF should_take_src_for_deepest THEN st.src ELSE @]
        sg == update_goal_elems([src |-> st.src, goal |-> st.goal], 0,
                                bucket_num, src_meta, branch_leaf, meta_len)
    IN  [src |-> sg.src, goal |-> sg.goal, deepest_meta |-> deepest]

\* The root-to-leaf loop of prepare_deepest, from bucket `bucket_num` down.
RECURSIVE prepare_deepest_loop(_, _, _, _, _)
prepare_deepest_loop(st, bucket_num, b_meta, branch_leaf, meta_len) ==
    IF bucket_num < 0 THEN st
    ELSE LET next == update_goal_and_deepest_for_a_single_bucket(
                         st, bucket_num, b_meta[bucket_num], branch_leaf, meta_len)
         IN  Sequenced(next, prepare_deepest_loop(
                 next, bucket_num - 1, b_meta, branch_leaf, meta_len))

prepare_deepest(s_meta, b_meta, branch_leaf) ==
    LET meta_len == Length(b_meta)
        meta_len_with_stash == meta_len + 1
        st0 == [src |-> FLOOR_INDEX, goal |-> FLOOR_INDEX,
                deepest_meta |-> [i \in 0..(meta_len_with_stash - 1) |-> FLOOR_INDEX]]
        st1 == update_goal_and_deepest_for_a_single_bucket(
                   st0, meta_len, s_meta, branch_leaf, meta_len)
    IN  prepare_deepest_loop(st1, meta_len - 1, b_meta, branch_leaf, meta_len).deepest_meta

\* bucket_has_empty_slot_from with `=` for `|=`: the last slot decides.
RECURSIVE bucket_has_empty_slot_from_last_slot(_, _, _)
bucket_has_empty_slot_from_last_slot(acc, idx, bucket_meta) ==
    IF idx >= Length(bucket_meta) THEN acc
    ELSE bucket_has_empty_slot_from_last_slot(meta_is_vacant(bucket_meta[idx]),
                                              idx + 1, bucket_meta)

\* The OR over the slots of a bucket, from slot idx on.
RECURSIVE bucket_has_empty_slot_from(_, _, _)
bucket_has_empty_slot_from(acc, idx, bucket_meta) ==
    IF idx >= Length(bucket_meta) THEN acc
    ELSE bucket_has_empty_slot_from(acc \/ meta_is_vacant(bucket_meta[idx]),
                                    idx + 1, bucket_meta)

bucket_has_empty_slot(bucket_meta) == bucket_has_empty_slot_from(FALSE, 0, bucket_meta)

\* prepare_target_step without `dest.ct_eq(&FLOOR_INDEX) &`: a bucket with
\* a vacant slot is taken as a destination while another one is pending.
prepare_target_step_forgetting_pending(st, bucket_num, d_meta, b_meta) ==
    LET should_set_target == (bucket_num = st.src)
        target1 == [st.target_meta EXCEPT
                       ![bucket_num] = IF should_set_target THEN st.dest ELSE @]
        dest1 == IF should_set_target THEN FLOOR_INDEX ELSE st.dest
        src1 == IF should_set_target THEN FLOOR_INDEX ELSE st.src
        has_empty_slot == bucket_has_empty_slot(b_meta[bucket_num])
        is_there_a_vacancy == has_empty_slot \/ should_set_target
        is_this_a_future_target ==
            is_there_a_vacancy /\ ~(d_meta[bucket_num] = FLOOR_INDEX)
    IN  [src |-> IF is_this_a_future_target THEN d_meta[bucket_num] ELSE src1,
         dest |-> IF is_this_a_future_target THEN bucket_num ELSE dest1,
         target_meta |-> target1]

\* prepare_target_step with `target_meta[bucket_num].cmov(should_set_target,
\* &src)`: the source is stored where the destination belongs.
prepare_target_step_storing_src(st, bucket_num, d_meta, b_meta) ==
    LET should_set_target == (bucket_num = st.src)
        target1 == [st.target_meta EXCEPT
                       ![bucket_num] = IF should_set_target THEN st.src ELSE @]
        dest1 == IF should_set_target THEN FLOOR_INDEX ELSE st.dest
        src1 == IF should_set_target THEN FLOOR_INDEX ELSE st.src
        has_empty_slot == bucket_has_empty_slot(b_meta[bucket_num])
        is_there_a_vacancy ==
            (dest1 = FLOOR_INDEX /\ has_empty_slot) \/ should_set_target
        is_this_a_future_target ==
            is_there_a_vacancy /\ ~(d_meta[bucket_num] = FLOOR_INDEX)
    IN  [src |-> IF is_this_a_future_target THEN d_meta[bucket_num] ELSE src1,
         dest |-> IF is_this_a_future_target THEN bucket_num ELSE dest1,
         target_meta |-> target1]

\* The body of the leaf-to-root loop of prepare_target for one bucket;
\* st = [src, dest, target_meta].
prepare_target_step(st, bucket_num, d_meta, b_meta) ==
    LET should_set_target == (bucket_num = st.src)
        target1 == [st.target_meta EXCEPT
                       ![bucket_num] = IF should_set_target THEN st.dest ELSE @]
        dest1 == IF should_set_target THEN FLOOR_INDEX ELSE st.dest
        src1 == IF should_set_target THEN FLOOR_INDEX ELSE st.src
        has_empty_slot == bucket_has_empty_slot(b_meta[bucket_num])
        is_there_a_vacancy ==
            (dest1 = FLOOR_INDEX /\ has_empty_slot) \/ should_set_target
        is_this_a_future_target ==
            is_there_a_vacancy /\ ~(d_meta[bucket_num] = FLOOR_INDEX)
    IN  [src |-> IF is_this_a_future_target THEN d_meta[bucket_num] ELSE src1,
         dest |-> IF is_this_a_future_target THEN bucket_num ELSE dest1,
         target_meta |-> target1]

\* The loop `for bucket_num in 0..data_len`, from bucket_num on.
RECURSIVE prepare_target_loop(_, _, _, _)
prepare_target_loop(st, bucket_num, d_meta, b_meta) ==
    IF bucket_num >= Length(b_meta) THEN st
    ELSE LET next == prepare_target_step(st, bucket_num, d_meta, b_meta)
         IN  Sequenced(next, prepare_target_loop(next, bucket_num + 1, d_meta, b_meta))

prepare_target(d_meta, b_meta) ==
    LET meta_len == Length(b_meta)
        meta_len_with_stash == meta_len + 1
        data_len == Length(b_meta)
        st0 == [src |-> FLOOR_INDEX, dest |-> FLOOR_INDEX,
                target_meta |-> [i \in 0..(meta_len_with_stash - 1) |-> FLOOR_INDEX]]
        st == prepare_target_loop(st0, 0, d_meta, b_meta)
    IN  [st.target_meta EXCEPT ![data_len] = IF data_len = st.src THEN st.dest ELSE @]

(***************************************************************************)
(* The branching references of the test module.                            *)
(***************************************************************************)
\* The loop over stash_meta of
\* find_source_for_deepest_elem_in_stash_non_oblivious_for_testing;
\* ls = [destination_bucket, source_bucket].
RECURSIVE find_source_stash(_, _, _, _, _)
find_source_stash(ls, idx, s_meta, branch_leaf, meta_len) ==
    IF idx >= Length(s_meta) THEN ls
    ELSE LET elem_destination ==
                 lowest_height_legal_index_impl(meta_leaf_num(s_meta[idx]), branch_leaf, meta_len)
             next == IF elem_destination < ls.destination_bucket
                     THEN [destination_bucket |-> elem_destination,
                           source_bucket |-> meta_len]
                     ELSE ls
         IN  find_source_stash(next, idx + 1, s_meta, branch_leaf, meta_len)

\* Its loop over the slots of bucket bucket_num.
RECURSIVE find_source_bucket(_, _, _, _, _, _)
find_source_bucket(ls, idx, bucket_num, bucket_meta, branch_leaf, meta_len) ==
    IF idx >= Length(bucket_meta) THEN ls
    ELSE LET elem_destination ==
                 lowest_height_legal_index_impl(meta_leaf_num(bucket_meta[idx]), branch_leaf, meta_len)
             next == IF elem_destination < ls.destination_bucket
                     THEN [destination_bucket |-> elem_destination,
                           source_bucket |-> bucket_num]
                     ELSE ls
         IN  find_source_bucket(next, idx + 1, bucket_num, bucket_meta, branch_leaf, meta_len)

\* Its loop over the buckets, from the root down to test_level.
RECURSIVE find_source_branch(_, _, _, _, _, _)
find_source_branch(ls, bucket_num, test_level, b_meta, branch_leaf, meta_len) ==
    IF bucket_num < test_level THEN ls
    ELSE find_source_branch(
             find_source_bucket(ls, 0, bucket_num, b_meta[bucket_num], branch_leaf, meta_len),
             bucket_num - 1, test_level, b_meta, branch_leaf, meta_len)

find_source_for_deepest_elem_in_stash_non_oblivious_for_testing(s_meta, b_meta, branch_leaf, test_level) ==
    LET meta_len == Length(b_meta)
        ls0 == [destination_bucket |-> FLOOR_INDEX, source_bucket |-> FLOOR_INDEX]
        ls1 == find_source_stash(ls0, 0, s_meta, branch_leaf, meta_len)
    IN  find_source_branch(ls1, meta_len - 1, test_level, b_meta, branch_leaf, meta_len)

prepare_deepest_non_oblivious_for_testing(d_meta, s_meta, b_meta, branch_leaf) ==
    [i \in DOMAIN d_meta |->
        LET deepest_test ==
                find_source_for_deepest_elem_in_stash_non_oblivious_for_testing(
                    s_meta, b_meta, branch_leaf, i + 1)
        IN  IF deepest_test.destination_bucket <= i /\ deepest_test.source_bucket > i
            THEN deepest_test.source_bucket
            ELSE FLOOR_INDEX]

\* The while loop of prepare_target_nonoblivious_for_testing;
\* st = [i, has_vacancy, target_meta].
RECURSIVE prepare_target_nonoblivious_loop(_, _, _)
prepare_target_nonoblivious_loop(st, d_meta, b_meta) ==
    IF ~(st.i < Length(b_meta)) THEN st.target_meta
    ELSE LET has_vacancy == st.has_vacancy \/ bucket_has_empty_slot(b_meta[st.i])
         IN  IF d_meta[st.i] = FLOOR_INDEX
             THEN prepare_target_nonoblivious_loop(
                      [i |-> st.i + 1, has_vacancy |-> FALSE,
                       target_meta |-> [st.target_meta EXCEPT ![st.i] = FLOOR_INDEX]],
                      d_meta, b_meta)
             ELSE IF has_vacancy
             THEN LET target == st.i
                      i == d_meta[st.i]
                  IN  prepare_target_nonoblivious_loop(
                          [i |-> i, has_vacancy |-> has_vacancy,
                           target_meta |-> [st.target_meta EXCEPT ![i] = target]],
                          d_meta, b_meta)
             ELSE prepare_target_nonoblivious_loop(
                      [i |-> st.i + 1, has_vacancy |-> has_vacancy,
                       target_meta |-> st.target_meta],
                      d_meta, b_meta)

prepare_target_nonoblivious_for_testing(t_meta, d_meta, b_meta) ==
    prepare_target_nonoblivious_loop(
        [i |-> 0, has_vacancy |-> FALSE, target_meta |-> t_meta], d_meta, b_meta)

(***************************************************************************)
(* BranchCheckout::pack and BranchCheckout::ct_insert (path_oram.rs), used *)
(* here through their interface.  A branch is [leaf, data, meta]; a source *)
(* slot is [data, meta].                                                   *)
(***************************************************************************)
\* details::ct_insert: try the slots of one bucket in order, from slot idx;
\* r = [src_meta, bucket_data, bucket_meta].  The source payload is not
\* changed; the source record is made vacant once it has been copied.
RECURSIVE details_ct_insert(_, _, _, _)
details_ct_insert(condition, src_data, r, idx) ==
    IF idx >= Length(r.bucket_meta) THEN r
    ELSE LET test == /\ condition
                     /\ ~meta_is_vacant(r.src_meta)
                     /\ meta_is_vacant(r.bucket_meta[idx])
             next == [src_meta    |-> meta_set_vacant(test, r.src_meta),
                      bucket_data |-> IF test THEN [r.bucket_data EXCEPT ![idx] = src_data]
                                      ELSE r.bucket_data,
                      bucket_meta |-> IF test THEN [r.bucket_meta EXCEPT ![idx] = r.src_meta]
                                      ELSE r.bucket_meta]
         IN  details_ct_insert(condition, src_data, next, idx + 1)

\* BranchCheckout::insert_into_branch_suffix: offer the source to every
\* bucket of dest at or above insert_after_index, deepest first, from bucket
\* idx; r = [src_meta, dest_data, dest_meta].
RECURSIVE insert_into_branch_suffix(_, _, _, _, _)
insert_into_branch_suffix(condition, src_data, r, insert_after_index, idx) ==
    IF idx >= Length(r.dest_data) THEN r
    ELSE LET b == details_ct_insert(
                      condition /\ ~(idx < insert_after_index), src_data,
                      [src_meta |-> r.src_meta,
                       bucket_data |-> r.dest_data[idx],
                       bucket_meta |-> r.dest_meta[idx]], 0)
             next == [src_meta  |-> b.src_meta,
                      dest_data |-> [r.dest_data EXCEPT ![idx] = b.bucket_data],
                      dest_meta |-> [r.dest_meta EXCEPT ![idx] = b.bucket_meta]]
         IN  insert_into_branch_suffix(condition, src_data, next, insert_after_index, idx + 1)

\* BranchCheckout::ct_insert: returns [branch, src_meta].
ct_insert(branch, condition, src_data, src_meta) ==
    LET cond == condition /\ ~meta_is_vacant(src_meta)
        lowest_height_legal_index ==
            lowest_height_legal_index_impl(meta_leaf_num(src_meta), branch.leaf,
                                           Length(branch.data))
        r == insert_into_branch_suffix(
                 cond, src_data,
                 [src_meta |-> src_meta, dest_data |-> branch.data, dest_meta |-> branch.meta],
                 lowest_height_legal_index, 0)
    IN  [branch   |-> [leaf |-> branch.leaf, data |-> r.dest_data, meta |-> r.dest_meta],
         src_meta |-> r.src_meta]

\* The first k buckets of an array of buckets.
Lower(a, k) == [i \in 0..(k - 1) |-> a[i]]

\* The slot loop of pack for bucket bucket_num, from slot idx: move the block
\* of the slot into the deepest bucket below that is legal and has room.
RECURSIVE pack_bucket(_, _, _)
pack_bucket(branch, bucket_num, idx) ==
    IF idx >= Length(branch.meta[bucket_num]) THEN branch
    ELSE LET src_data == branch.data[bucket_num][idx]
             src_meta == branch.meta[bucket_num][idx]
             data_len == Length(branch.data)
             lowest_height_legal_index ==
                 lowest_height_legal_index_impl(meta_leaf_num(src_meta), branch.leaf, data_len)
             r == insert_into_branch_suffix(
                      ~meta_is_vacant(src_meta), src_data,
                      [src_meta  |-> src_meta,
                       dest_data |-> Lower(branch.data, bucket_num),
                       dest_meta |-> Lower(branch.meta, bucket_num)],
                      lowest_height_legal_index, 0)
             next == [leaf |-> branch.leaf,
                      data |-> [i \in DOMAIN branch.data |->
                                   IF i < bucket_num THEN r.dest_data[i] ELSE branch.data[i]],
                      meta |-> [i \in DOMAIN branch.meta |->
                                   IF i < bucket_num THEN r.dest_meta[i]
                                   ELSE IF i = bucket_num
                                   THEN [branch.meta[i] EXCEPT ![idx] = r.src_meta]
                                   ELSE branch.meta[i]]]
         IN  pack_bucket(next, bucket_num, idx + 1)

\* The bucket loop of pack, from bucket bucket_num up to the root.
RECURSIVE pack_from(_, _)
pack_from(branch, bucket_num) ==
    IF bucket_num >= Length(branch.data) THEN branch
    ELSE pack_from(pack_bucket(branch, bucket_num, 0), bucket_num + 1)

\* BranchCheckout::pack.
pack(branch) == pack_from(branch, 1)

(***************************************************************************)
(* Path ORAM greedy eviction.                                              *)
(***************************************************************************)
\* path_oram_eviction_step handing ct_insert a copy of the record: the stash
\* slot is not made vacant when its block is inserted.
path_oram_eviction_step_on_a_copy(r, idx) ==
    LET ins == ct_insert(r.branch, TRUE, r.stash_data[idx], r.stash_meta[idx])
    IN  [stash_data |-> r.stash_data,
         stash_meta |-> r.stash_meta,
         branch     |-> ins.branch]

\* path_oram_eviction_step with the record of slot idx written back to the
\* next slot (`stash_meta[(idx + 1) % len]`).
path_oram_eviction_step_off_by_one(r, idx) ==
    LET ins == ct_insert(r.branch, TRUE, r.stash_data[idx], r.stash_meta[idx])
    IN  [stash_data |-> r.stash_data,
         stash_meta |-> [r.stash_meta EXCEPT
                            ![(idx + 1) % Length(r.stash_meta)] = ins.src_meta],
         branch     |-> ins.branch]

\* The body of the loop over the stash for slot idx;
\* r = [stash_data, stash_meta, branch].
path_oram_eviction_step(r, idx) ==
    LET ins == ct_insert(r.branch, TRUE, r.stash_data[idx], r.stash_meta[idx])
    IN  [stash_data |-> r.stash_data,
         stash_meta |-> [r.stash_meta EXCEPT ![idx] = ins.src_meta],
         branch     |-> ins.branch]

\* path_oram_eviction_loop going through the stash from its last slot to
\* its first (`for idx in (0..stash_data.len()).rev()`).
RECURSIVE path_oram_eviction_loop_descending(_, _)
path_oram_eviction_loop_descending(r, idx) ==
    IF idx >= Length(r.stash_data) THEN r
    ELSE path_oram_eviction_loop_descending(
             path_oram_eviction_step(r, Length(r.stash_data) - 1 - idx), idx + 1)

\* The loop `for idx in 0..stash_data.len()`, from idx on.
RECURSIVE path_oram_eviction_loop(_, _)
path_oram_eviction_loop(r, idx) ==
    IF idx >= Length(r.stash_data) THEN r
    ELSE path_oram_eviction_loop(path_oram_eviction_step(r, idx), idx + 1)

\* path_oram_eviction_strategy without the call of branch.pack().
path_oram_eviction_strategy_without_pack(s_data, s_meta, branch) ==
    path_oram_eviction_loop(
        [stash_data |-> s_data, stash_meta |-> s_meta, branch |-> branch], 0)

\* Returns the stash and the branch as the call leaves them.
path_oram_eviction_strategy(s_data, s_meta, branch) ==
    path_oram_eviction_loop(
        [stash_data |-> s_data, stash_meta |-> s_meta, branch |-> pack(branch)], 0)

(***************************************************************************)
(* What the operations touch.  A visit of slot idx of level bucket_num     *)
(* (the stash being level meta_len) is <<"slot", bucket_num, idx>>, an     *)
(* access of an index array is <<array, index>>, and a call on the branch  *)
(* is <<method, arguments...>>.                                            *)
(***************************************************************************)
\* The loop `for elem in src_meta` of
\* update_goal_and_deepest_for_a_single_bucket, from slot idx on.
RECURSIVE update_goal_elems_accesses(_, _, _)
update_goal_elems_accesses(idx, bucket_num, src_meta) ==
    IF idx >= Length(src_meta) THEN <<>>
    ELSE <<<<"slot", bucket_num, idx>>>>
             \o update_goal_elems_accesses(idx + 1, bucket_num, src_meta)

update_goal_and_deepest_for_a_single_bucket_accesses(bucket_num, src_meta) ==
    <<<<"deepest_meta", bucket_num>>>>
        \o update_goal_elems_accesses(0, bucket_num, src_meta)

\* The root-to-leaf loop of prepare_deepest, from bucket `bucket_num` down.
RECURSIVE prepare_deepest_loop_accesses(_, _)
prepare_deepest_loop_accesses(bucket_num, b_meta) ==
    IF bucket_num < 0 THEN <<>>
    ELSE update_goal_and_deepest_for_a_single_bucket_accesses(bucket_num, b_meta[bucket_num])
             \o prepare_deepest_loop_accesses(bucket_num - 1, b_meta)

prepare_deepest_accesses(s_meta, b_meta) ==
    LET meta_len == Length(b_meta)
    IN  update_goal_and_deepest_for_a_single_bucket_accesses(meta_len, s_meta)
            \o prepare_deepest_loop_accesses(meta_len - 1, b_meta)

\* bucket_has_empty_slot leaving its loop at the first vacant slot it finds.
RECURSIVE bucket_has_empty_slot_accesses_until_vacant(_, _)
bucket_has_empty_slot_accesses_until_vacant(idx, bucket_meta) ==
    IF idx >= Length(bucket_meta) THEN <<>>
    ELSE IF meta_is_vacant(bucket_meta[idx]) THEN <<idx>>
    ELSE <<idx>> \o bucket_has_empty_slot_accesses_until_vacant(idx + 1, bucket_meta)

\* The slots the loop `for src_meta in bucket_meta` of bucket_has_empty_slot
\* reads, from slot idx on.
RECURSIVE bucket_has_empty_slot_accesses(_, _)
bucket_has_empty_slot_accesses(idx, bucket_meta) ==
    IF idx >= Length(bucket_meta) THEN <<>>
    ELSE <<idx>> \o bucket_has_empty_slot_accesses(idx + 1, bucket_meta)

\* The body of the leaf-to-root loop of prepare_target for one bucket.
prepare_target_step_accesses(bucket_num, d_meta, b_meta) ==
    LET slots == bucket_has_empty_slot_accesses(0, b_meta[bucket_num])
    IN  <<<<"target_meta", bucket_num>>>>
            \o [k \in 1..Len(slots) |-> <<"slot", bucket_num, slots[k]>>]
            \o <<<<"deepest_meta", bucket_num>>, <<"deepest_meta", bucket_num>>>>

RECURSIVE prepare_target_loop_accesses(_, _, _)
prepare_target_loop_accesses(bucket_num, d_meta, b_meta) ==
    IF bucket_num >= Length(b_meta) THEN <<>>
    ELSE prepare_target_step_accesses(bucket_num, d_meta, b_meta)
             \o prepare_target_loop_accesses(bucket_num + 1, d_meta, b_meta)

prepare_target_accesses(d_meta, b_meta) ==
    LET data_len == Length(b_meta)
    IN  prepare_target_loop_accesses(0, d_meta, b_meta)
            \o <<<<"target_meta", data_len>>>>

\* The loop `for idx in 0..stash_data.len()` of path_oram_eviction_strategy,
\* from idx on: one ct_insert per slot, with the condition 1.into().
RECURSIVE path_oram_eviction_loop_accesses(_, _)
path_oram_eviction_loop_accesses(idx, s_data) ==
    IF idx >= Length(s_data) THEN <<>>
    ELSE <<<<"ct_insert", TRUE, idx>>>>
             \o path_oram_eviction_loop_accesses(idx + 1, s_data)

path_oram_eviction_strategy_accesses(s_data, s_meta, branch) ==
    <<<<"pack">>>> \o path_oram_eviction_loop_accesses(0, s_data)

(***************************************************************************)
(* Branch selection.                                                       *)
(***************************************************************************)
\* deterministic_get_next_branch_to_evict without the reversal of the bits:
\* the leaves come in counting order.
deterministic_get_next_branch_to_evict_in_counting_order(num_bits_to_be_reversed, iteration) ==
    IF num_bits_to_be_reversed = 0 THEN 1
    ELSE LET leaf_significant_index == Pow2(num_bits_to_be_reversed)
             test_position == iteration % leaf_significant_index
         IN  leaf_significant_index + test_position

\* deterministic_get_next_branch_to_evict with `return 0` for a tree of
\* height 0.
deterministic_get_next_branch_to_evict_root_zero(num_bits_to_be_reversed, iteration) ==
    IF num_bits_to_be_reversed = 0 THEN 0
    ELSE LET leaf_significant_index == Pow2(num_bits_to_be_reversed)
             test_position ==
                 BitsToNat(ShiftRight(reverse_bits(iteration),
                                      U64_BITS - num_bits_to_be_reversed), 0)
                     % leaf_significant_index
         IN  leaf_significant_index + test_position

deterministic_get_next_branch_to_evict(num_bits_to_be_reversed, iteration) ==
    IF num_bits_to_be_reversed = 0 THEN 1
    ELSE LET leaf_significant_index == Pow2(num_bits_to_be_reversed)
             test_position ==
                 BitsToNat(ShiftRight(reverse_bits(iteration),
                                      U64_BITS - num_bits_to_be_reversed), 0)
                     % leaf_significant_index
         IN  leaf_significant_index + test_position

\* PathOramDeterministicEvictor::new: the field values it stores.
PathOramDeterministicEvictor_new(additional, t_height) ==
    [number_of_additional_branches_to_evict |-> additional,
     tree_height |-> t_height,
     tree_breadth |-> BitXor(2, t_height),
     branches_evicted |-> 0]

\* PathOramDeterministicEvictorCreator::new: the field value it stores.
PathOramDeterministicEvictorCreator_new(additional) ==
    [number_of_additional_branches_to_evict |-> additional]

\* EvictorCreator::create of PathOramDeterministicEvictorCreator.
PathOramDeterministicEvictorCreator_create(creator, t_height) ==
    PathOramDeterministicEvictor_new(
        creator.number_of_additional_branches_to_evict, t_height)

\* The field values of a PathOramRandomEvictor made for `additional`
\* branches and a tree of height t_height.
PathOramRandomEvictor_fields(additional, t_height) ==
    [number_of_additional_branches_to_evict |-> additional,
     branches_evicted |-> 0,
     tree_height |-> t_height]

\* TreeIndex::random_child_at_height: the values a call may return, the
\* descendants of `node` at height t_height.
random_child_at_height(node, t_height) ==
    LET levels == t_height - height(node)
    IN  (node * Pow2(levels))..(node * Pow2(levels) + Pow2(levels) - 1)

MaxCalls == MaxPeriods * Pow2(MaxHeight) + 1

\* The test of the pure function is not running.
TestIdle ==
    /\ test_height = 0
    /\ test_branches = <<>>

\* No branch is checked out while only the selector is exercised.
OramIdle ==
    /\ leaf = 0
    /\ branch_data = <<>>
    /\ branch_meta = <<>>
    /\ stash_data = <<>>
    /\ stash_meta = <<>>
    /\ deepest_meta = <<>>
    /\ target_meta = <<>>
    /\ pc = "selector"
    /\ evictions = 0
    /\ pre = <<>>
    /\ accesses = <<>>

SelInit ==
    /\ \E additional \in 0..MaxAdditional, t_height \in 0..MaxHeight,
          made_by \in {"new", "create", "random"} :
        /\ configured = additional
        /\ IF made_by = "random"
           THEN LET e == PathOramRandomEvictor_fields(additional, t_height)
                IN  /\ selector = "random"
                    /\ number_of_additional_branches_to_evict =
                           e.number_of_additional_branches_to_evict
                    /\ tree_height = e.tree_height
                    /\ tree_breadth = 0
                    /\ branches_evicted = e.branches_evicted
           ELSE LET e == IF made_by = "new"
                         THEN PathOramDeterministicEvictor_new(additional, t_height)
                         ELSE PathOramDeterministicEvictorCreator_create(
                                  PathOramDeterministicEvictorCreator_new(additional),
                                  t_height)
                IN  /\ selector = "deterministic"
                    /\ number_of_additional_branches_to_evict =
                           e.number_of_additional_branches_to_evict
                    /\ tree_height = e.tree_height
                    /\ tree_breadth = e.tree_breadth
                    /\ branches_evicted = e.branches_evicted
        /\ counts_returned = <<>>
        /\ returned = <<>>
        /\ panicked = FALSE
    /\ OramIdle
    /\ TestIdle

\* BranchSelector::get_next_branch_to_evict of the deterministic evictor.
\* `x % 0` panics in Rust, in debug and in release builds.
get_next_branch_to_evict ==
    /\ selector = "deterministic"
    /\ ~panicked
    /\ Len(returned) < MaxCalls
    /\ LET iteration == branches_evicted
       IN  IF tree_breadth = 0
           THEN /\ panicked' = TRUE
                /\ UNCHANGED <<branches_evicted, returned>>
           ELSE /\ branches_evicted' = (branches_evicted + 1) % tree_breadth
                /\ returned' = Append(returned,
                       deterministic_get_next_branch_to_evict(tree_height, iteration))
                /\ panicked' = FALSE
    /\ UNCHANGED <<selector, number_of_additional_branches_to_evict, tree_height,
                   tree_breadth, configured, counts_returned>>
    /\ UNCHANGED <<oram_vars, test_vars>>

\* BranchSelector::get_next_branch_to_evict of the random evictor: the rng
\* may give any leaf of the tree.
PathOramRandomEvictor_get_next_branch_to_evict ==
    /\ selector = "random"
    /\ Len(returned) < MaxRandomCalls
    /\ branches_evicted' = branches_evicted + 1
    /\ \E child \in random_child_at_height(1, tree_height) :
           returned' = Append(returned, child)
    /\ UNCHANGED <<selector, number_of_additional_branches_to_evict, tree_height,
                   tree_breadth, configured, counts_returned, panicked>>
    /\ UNCHANGED <<oram_vars, test_vars>>

\* get_number_of_additional_branches_to_evict counting a branch as evicted
\* (`self.branches_evicted += 1` before the field is returned).
get_number_of_additional_branches_to_evict_counting ==
    /\ ~panicked
    /\ Len(counts_returned) < MaxCountCalls
    /\ branches_evicted' = branches_evicted + 1
    /\ counts_returned' = Append(counts_returned, number_of_additional_branches_to_evict)
    /\ UNCHANGED <<selector, number_of_additional_branches_to_evict,
                   tree_height, tree_breadth, configured, returned, panicked>>
    /\ UNCHANGED <<oram_vars, test_vars>>

\* BranchSelector::get_number_of_additional_branches_to_evict of either
\* evictor (`&self`: the field is returned).
get_number_of_additional_branches_to_evict ==
    /\ ~panicked
    /\ Len(counts_returned) < MaxCountCalls
    /\ counts_returned' = Append(counts_returned, number_of_additional_branches_to_evict)
    /\ UNCHANGED <<selector, number_of_additional_branches_to_evict, branches_evicted,
                   tree_height, tree_breadth, configured, returned, panicked>>
    /\ UNCHANGED <<oram_vars, test_vars>>

SelNext ==
    \/ get_next_branch_to_evict
    \/ PathOramRandomEvictor_get_next_branch_to_evict
    \/ get_number_of_additional_branches_to_evict

SelSpec == SelInit /\ [][SelNext]_vars

(***************************************************************************)
(* Branches and stashes the operations are applied to.                     *)
(***************************************************************************)
\* The leaves of a tree of height h.
Leaves(h) == Pow2(h)..(2 * Pow2(h) - 1)

\* The leaves a branch is checked out for: the first leaf of the tree, as
\* in the tests (`leaf = 1 << height`); the other branches are its mirror
\* images.
BranchLeaves == {Pow2(BranchHeight)}

\* Leaf numbers a slot of bucket bucket_num may hold on the branch of
\* branch_leaf: 0 (vacant) or a leaf the bucket is legal for, as ct_insert
\* and pack only ever place a block at or above its lowest legal index.
SlotChoices(branch_leaf, bucket_num) ==
    {0} \cup {l \in Leaves(BranchHeight) :
                 lowest_height_legal_index_impl(l, branch_leaf, BranchHeight + 1)
                     <= bucket_num}

\* All assignments of leaf numbers to the slots of buckets 0..bucket_num.
RECURSIVE BranchLeafNums(_, _)
BranchLeafNums(branch_leaf, bucket_num) ==
    IF bucket_num < 0 THEN {<<>>}
    ELSE {[i \in 0..bucket_num |-> IF i = bucket_num THEN bucket ELSE lower[i]] :
             lower \in BranchLeafNums(branch_leaf, bucket_num - 1),
             bucket \in [0..(Z - 1) -> SlotChoices(branch_leaf, bucket_num)]}

\* All assignments of leaf numbers to the slots of a stash.
StashLeafNums ==
    UNION {[0..(len - 1) -> {0} \cup Leaves(BranchHeight)] : len \in 0..MaxStash}

\* The record and the payload of the block written with number block_num
\* and leaf leaf_num; a slot never written holds the defaults.
NewMeta(block_num, leaf_num) ==
    IF leaf_num = 0 THEN DefaultMeta
    ELSE [block_num |-> block_num, leaf_num |-> leaf_num]

NewData(block_num, leaf_num) ==
    IF leaf_num = 0 THEN DefaultData ELSE <<"payload", block_num>>

\* The state of the selector while a branch and a stash are worked on.
SelIdle ==
    LET e == PathOramDeterministicEvictor_new(0, BranchHeight)
    IN  /\ number_of_additional_branches_to_evict =
               e.number_of_additional_branches_to_evict
        /\ tree_height = e.tree_height
        /\ tree_breadth = e.tree_breadth
        /\ branches_evicted = e.branches_evicted
        /\ selector = "deterministic"
        /\ configured = 0
        /\ counts_returned = <<>>
        /\ returned = <<>>
        /\ panicked = FALSE

OramInit ==
    /\ SelIdle
    /\ TestIdle
    /\ \E branch_leaf \in BranchLeaves,
          s \in StashLeafNums :
          \E b \in BranchLeafNums(branch_leaf, BranchHeight) :
            /\ leaf = branch_leaf
            /\ stash_meta = [k \in DOMAIN s |-> NewMeta(k + 1, s[k])]
            /\ stash_data = [k \in DOMAIN s |-> NewData(k + 1, s[k])]
            /\ branch_meta = [i \in DOMAIN b |-> [j \in DOMAIN b[i] |->
                                 NewMeta(MaxStash + i * Z + j + 1, b[i][j])]]
            /\ branch_data = [i \in DOMAIN b |-> [j \in DOMAIN b[i] |->
                                 NewData(MaxStash + i * Z + j + 1, b[i][j])]]
    /\ deepest_meta = <<>>
    /\ target_meta = <<>>
    /\ pc = "start"
    /\ evictions = 0
    /\ pre = <<>>
    /\ accesses = <<>>

\* The checked-out branch as one value.
Branch == [leaf |-> leaf, data |-> branch_data, meta |-> branch_meta]

\* prepare_deepest applied to the stash and the branch.
PrepareDeepest ==
    /\ pc = "start"
    /\ deepest_meta' = prepare_deepest(stash_meta, branch_meta, leaf)
    /\ accesses' = prepare_deepest_accesses(stash_meta, branch_meta)
    /\ pc' = "deepest"
    /\ UNCHANGED <<leaf, branch_data, branch_meta, stash_data, stash_meta,
                   target_meta, evictions, pre>>
    /\ UNCHANGED <<sel_vars, test_vars>>

\* prepare_target applied to the result of prepare_deepest and the branch.
PrepareTarget ==
    /\ pc = "deepest"
    /\ target_meta' = prepare_target(deepest_meta, branch_meta)
    /\ accesses' = prepare_target_accesses(deepest_meta, branch_meta)
    /\ pc' = "target"
    /\ UNCHANGED <<leaf, branch_data, branch_meta, stash_data, stash_meta,
                   deepest_meta, evictions, pre>>
    /\ UNCHANGED <<sel_vars, test_vars>>

\* EvictionStrategy::evict_from_stash_to_branch of either evictor.
evict_from_stash_to_branch ==
    /\ pc \in {"start", "evicted"}
    /\ evictions < MaxEvictions
    /\ LET r == path_oram_eviction_strategy(stash_data, stash_meta, Branch)
       IN  /\ stash_data' = r.stash_data
           /\ stash_meta' = r.stash_meta
           /\ branch_data' = r.branch.data
           /\ branch_meta' = r.branch.meta
    /\ pre' = [stash_data |-> stash_data, stash_meta |-> stash_meta, branch |-> Branch]
    /\ accesses' = path_oram_eviction_strategy_accesses(stash_data, stash_meta, Branch)
    /\ evictions' = evictions + 1
    /\ pc' = "evicted"
    /\ UNCHANGED <<leaf, deepest_meta, target_meta>>
    /\ UNCHANGED <<sel_vars, test_vars>>

OramNext == PrepareDeepest \/ PrepareTarget \/ evict_from_stash_to_branch

OramSpec == OramInit /\ [][OramNext]_vars

(***************************************************************************)
(* test_deterministic_oram_get_branches_to_evict: the pure function called *)
(* for one height with the iterations 0, 1, 2, ... in turn.                *)
(***************************************************************************)
TestInit ==
    /\ SelIdle
    /\ OramIdle
    /\ test_height \in 0..MaxHeight
    /\ test_branches = <<>>

\* `let test_branch = deterministic_get_next_branch_to_evict(h, t)` for the
\* next iteration t.
test_deterministic_oram_get_branches_to_evict ==
    /\ Len(test_branches) < MaxCalls
    /\ test_branches' = Append(test_branches,
           deterministic_get_next_branch_to_evict(test_height, Len(test_branches)))
    /\ UNCHANGED test_height
    /\ UNCHANGED <<sel_vars, oram_vars>>

TestNext == test_deterministic_oram_get_branches_to_evict

TestSpec == TestInit /\ [][TestNext]_vars

(***************************************************************************)
(* The fixed tree of test_prepare_deepest_and_target_with_fixed_tree.      *)
(***************************************************************************)
\* `let size = 64` of the tests.
TestSize == 64
\* `type Z = U4` of the tests.
TestZ == 4

\* mc_oblivious_traits::log2_ceil: the least k with 2^k >= x.
RECURSIVE log2_ceil_from(_, _)
log2_ceil_from(x, k) == IF Pow2(k) >= x THEN k ELSE log2_ceil_from(x, k + 1)

log2_ceil(x) == log2_ceil_from(x, 0)

\* `log2_ceil(size).saturating_sub(log2_ceil(Z::U64))`.
TestHeight ==
    IF log2_ceil(TestSize) >= log2_ceil(TestZ)
    THEN log2_ceil(TestSize) - log2_ceil(TestZ) ELSE 0

\* HeapORAMStorageCreator::create(2u64 << height, rng): one bucket of Z
\* never-written slots per tree node.
HeapORAMStorageCreator_create(count) ==
    [node \in 1..(count - 1) |->
        [data |-> [j \in 0..(TestZ - 1) |-> DefaultData],
         meta |-> [j \in 0..(TestZ - 1) |-> DefaultMeta]]]

\* BranchCheckout::checkout: bucket i is the node `leaf >> i`.
checkout(storage, branch_leaf) ==
    [leaf |-> branch_leaf,
     data |-> [i \in 0..height(branch_leaf) |-> storage[branch_leaf \div Pow2(i)].data],
     meta |-> [i \in 0..height(branch_leaf) |-> storage[branch_leaf \div Pow2(i)].meta]]

\* BranchCheckout::checkin: the buckets go back to their nodes.
checkin(storage, branch) ==
    [node \in DOMAIN storage |->
        IF \E i \in DOMAIN branch.data : node = branch.leaf \div Pow2(i)
        THEN LET i == CHOOSE i \in DOMAIN branch.data : node = branch.leaf \div Pow2(i)
             IN  [data |-> branch.data[i], meta |-> branch.meta[i]]
        ELSE storage[node]]

\* The loop over intended_leaves_for_data_to_insert, from entry k on: the
\* block number and the leaf number of a block are both the intended leaf.
RECURSIVE insert_intended_leaves(_, _, _)
insert_intended_leaves(branch, intended_leaves, k) ==
    IF k > Len(intended_leaves) THEN branch
    ELSE LET next == ct_insert(branch, TRUE, DefaultData,
                               [block_num |-> intended_leaves[k],
                                leaf_num |-> intended_leaves[k]]).branch
         IN  Sequenced(next, insert_intended_leaves(next, intended_leaves, k + 1))

\* The branch populate_branch_with_fixed_data leaves checked out.
populate_branch_with_fixed_data ==
    LET storage0 == HeapORAMStorageCreator_create(2 * Pow2(TestHeight))
        branch_20 == insert_intended_leaves(checkout(storage0, 20), <<24, 27, 18, 23>>, 1)
        storage1 == checkin(storage0, branch_20)
        branch_16 == insert_intended_leaves(checkout(storage1, 16), <<31, 30, 20, 19>>, 1)
        storage2 == checkin(storage1, branch_16)
    IN  checkout(storage2, 16)

\* `intended_leaves_for_stash` of the test.
intended_leaves_for_stash == <<26, 23, 21, 21>>

\* The stashes tried on the fixed tree: the one of the test and the other
\* arrangements of its leaves over the same number of slots.
FixedStashLeafNums ==
    [1..Len(intended_leaves_for_stash) ->
        {intended_leaves_for_stash[k] : k \in 1..Len(intended_leaves_for_stash)}]

\* A stash as the test fills it: slot key_value holds block key_value.
FixedStashMeta(leaves) ==
    [key_value \in 0..(Len(leaves) - 1) |->
        [block_num |-> key_value, leaf_num |-> leaves[key_value + 1]]]

FixedInit ==
    /\ SelIdle
    /\ TestIdle
    /\ LET branch == populate_branch_with_fixed_data
       IN  /\ leaf = branch.leaf
           /\ branch_data = branch.data
           /\ branch_meta = branch.meta
    /\ \E leaves \in FixedStashLeafNums :
           /\ stash_meta = FixedStashMeta(leaves)
           /\ stash_data = [k \in 0..(Len(leaves) - 1) |-> DefaultData]
    /\ deepest_meta = <<>>
    /\ target_meta = <<>>
    /\ pc = "start"
    /\ evictions = 0
    /\ pre = <<>>
    /\ accesses = <<>>

\* The test applies prepare_deepest and prepare_target only.
FixedNext == PrepareDeepest \/ PrepareTarget

FixedSpec == FixedInit /\ [][FixedNext]_vars

(***************************************************************************)
(* Claims about the deterministic selector.                                *)
(***************************************************************************)
\* The low h bits of x, reversed.
RECURSIVE rev_h(_, _)
rev_h(h, x) == IF h = 0 THEN 0 ELSE (x % 2) * Pow2(h - 1) + rev_h(h - 1, x \div 2)

\* C1: every block of 2^h consecutive calls to get_next_branch_to_evict,
\* counted from creation, returns each leaf id of [2^h, 2^(h+1)) exactly once.
C1_EveryLeafOncePerPeriod ==
    \A k \in 0..MaxPeriods :
        (selector = "deterministic" /\ (k + 1) * Pow2(tree_height) <= Len(returned)) =>
            /\ {returned[k * Pow2(tree_height) + j] : j \in 1..Pow2(tree_height)}
                   = Leaves(tree_height)
            /\ \A i, j \in 1..Pow2(tree_height) :
                   i # j => returned[k * Pow2(tree_height) + i]
                                # returned[k * Pow2(tree_height) + j]

\* C2: for height h >= 1 the t-th call (0-based) returns
\* 2^h + rev_h(t mod 2^h); for h = 3 the calls return 8, 12, 10, 14, 9, 13,
\* 11, 15 and then 8 again.
C2_ReverseLexicographicSequence ==
    (selector = "deterministic" /\ tree_height >= 1) =>
        /\ \A t \in 0..(Len(returned) - 1) :
               returned[t + 1] =
                   Pow2(tree_height) + rev_h(tree_height, t % Pow2(tree_height))
        /\ tree_height = 3 =>
               \A t \in 0..(Len(returned) - 1) :
                   t <= 8 => returned[t + 1] = <<8, 12, 10, 14, 9, 13, 11, 15, 8>>[t + 1]

\* C7: creating a deterministic evictor for any height, by new or by the
\* creator, and calling get_next_branch_to_evict any number of times never
\* panics, and every call returns a leaf id.
C7_SelectorNeverPanics ==
    selector = "deterministic" =>
        /\ ~panicked
        /\ \A t \in 1..Len(returned) : returned[t] \in Leaves(tree_height)

(***************************************************************************)
(* Claims about prepare_deepest and prepare_target.                        *)
(***************************************************************************)
\* An array of the length of the branch plus one, all FLOOR_INDEX.
AllFloor == [i \in 0..Length(branch_meta) |-> FLOOR_INDEX]

\* The slots of level s: bucket s of the branch, or the stash for s = n.
LevelMeta(s) == IF s = Length(branch_meta) THEN stash_meta ELSE branch_meta[s]

\* C3: for every stash and every branch, vacant slots included, the array
\* returned by prepare_deepest equals the array computed by the branching
\* reference prepare_deepest_non_oblivious_for_testing.
C3_DeepestEqualsReference ==
    pc \in {"deepest", "target"} =>
        deepest_meta =
            prepare_deepest_non_oblivious_for_testing(AllFloor, stash_meta, branch_meta, leaf)

\* C4: for every branch and every deepest array produced by prepare_deepest,
\* the array returned by prepare_target equals the array computed by the
\* branching reference prepare_target_nonoblivious_for_testing started from
\* an all-FLOOR_INDEX array.
C4_TargetEqualsReference ==
    pc = "target" =>
        target_meta =
            prepare_target_nonoblivious_for_testing(AllFloor, deepest_meta, branch_meta)

\* The levels with a planned move.
Sources == {s \in DOMAIN target_meta : target_meta[s] # FLOOR_INDEX}

\* C5: after prepare_deepest and prepare_target, every level s with
\* target[s] = d other than FLOOR_INDEX has d < s and holds a non-vacant
\* block whose lowest legal index on the branch is at most d: no move to a
\* bucket the block may not occupy is planned.
C5_TargetsAreLegal ==
    pc = "target" =>
        \A s \in Sources :
            /\ target_meta[s] < s
            /\ \E k \in DOMAIN LevelMeta(s) :
                   /\ ~meta_is_vacant(LevelMeta(s)[k])
                   /\ lowest_height_legal_index_impl(
                          meta_leaf_num(LevelMeta(s)[k]), leaf, Length(branch_meta))
                          <= target_meta[s]

\* Two moves are planned, one of them out of the stash.
C5_Witness ==
    /\ pc = "target"
    /\ Length(branch_meta) \in Sources
    /\ Cardinality(Sources) >= 2

\* C6: after prepare_deepest and prepare_target, every entry target[s] = d
\* other than FLOOR_INDEX points at a level d with deepest[d] = s.
C6_TargetPointsBackThroughDeepest ==
    pc = "target" =>
        \A s \in Sources :
            /\ target_meta[s] \in DOMAIN deepest_meta
            /\ deepest_meta[target_meta[s]] = s

\* A move from one bucket into a deeper one is planned, and some level with
\* a deepest entry is left out of the plan.
C6_Witness ==
    /\ pc = "target"
    /\ \E s \in Sources : s < Length(branch_meta)
    /\ \E d \in DOMAIN deepest_meta :
           /\ deepest_meta[d] # FLOOR_INDEX
           /\ \A s \in Sources : target_meta[s] # d

(***************************************************************************)
(* Claims about evict_from_stash_to_branch.                                *)
(***************************************************************************)
\* The non-vacant blocks of a stash and a branch as (block number,
\* destination leaf, payload), each with the number of slots that hold it.
StashBlocks(s_data, s_meta) ==
    {<<s_meta[k].block_num, s_meta[k].leaf_num, s_data[k]>> :
         k \in {k \in DOMAIN s_meta : ~meta_is_vacant(s_meta[k])}}

BranchSlots(branch) ==
    {<<i, j>> \in (DOMAIN branch.meta) \X (0..(Z - 1)) :
         ~meta_is_vacant(branch.meta[i][j])}

BranchBlocks(branch) ==
    {<<branch.meta[p[1]][p[2]].block_num, branch.meta[p[1]][p[2]].leaf_num,
       branch.data[p[1]][p[2]]>> : p \in BranchSlots(branch)}

BlockCount(t, s_data, s_meta, branch) ==
    Cardinality({k \in DOMAIN s_meta :
                    /\ ~meta_is_vacant(s_meta[k])
                    /\ <<s_meta[k].block_num, s_meta[k].leaf_num, s_data[k]>> = t})
    + Cardinality({p \in BranchSlots(branch) :
                    <<branch.meta[p[1]][p[2]].block_num, branch.meta[p[1]][p[2]].leaf_num,
                      branch.data[p[1]][p[2]]>> = t})

BlockBag(s_data, s_meta, branch) ==
    [t \in StashBlocks(s_data, s_meta) \cup BranchBlocks(branch) |->
        BlockCount(t, s_data, s_meta, branch)]

\* The number of non-vacant slots of a stash.
NonVacant(s_meta) == Cardinality({k \in DOMAIN s_meta : ~meta_is_vacant(s_meta[k])})

\* C8: evict_from_stash_to_branch only relocates blocks: the multiset of
\* non-vacant blocks (block id, destination leaf, payload) of the stash and
\* the branch together is the same after the call as before it.
C8_EvictionKeepsTheBlocks ==
    pc = "evicted" =>
        BlockBag(stash_data, stash_meta, Branch)
            = BlockBag(pre.stash_data, pre.stash_meta, pre.branch)

\* A call that moved one block of the stash into the branch and left
\* another in the stash.
C8_Witness ==
    /\ pc = "evicted"
    /\ \E k \in DOMAIN stash_meta :
           ~meta_is_vacant(pre.stash_meta[k]) /\ meta_is_vacant(stash_meta[k])
    /\ \E k \in DOMAIN stash_meta :
           ~meta_is_vacant(pre.stash_meta[k]) /\ ~meta_is_vacant(stash_meta[k])

\* C9: over any sequence of evict_from_stash_to_branch calls on the same
\* stash, the number of non-vacant stash slots never increases from one
\* call to the next.
C9_StashNeverGrows ==
    pc = "evicted" => NonVacant(stash_meta) <= NonVacant(pre.stash_meta)

\* A second call in a row, made with a block still in the stash, after a
\* first call that moved a block out of it.
C9_Witness ==
    /\ pc = "evicted"
    /\ evictions >= 2
    /\ NonVacant(pre.stash_meta) > 0
    /\ \E k \in DOMAIN stash_meta :
           meta_is_vacant(stash_meta[k]) /\ stash_meta[k] # DefaultMeta

\* C10: evict_from_stash_to_branch with a stash whose slots are all vacant,
\* or with a stash of length zero, leaves the branch as pack() alone would
\* leave it, bucket by bucket, and leaves the stash unchanged.
C10_EmptyStashEvictionIsPack ==
    (pc = "evicted" /\ NonVacant(pre.stash_meta) = 0) =>
        /\ branch_data = pack(pre.branch).data
        /\ branch_meta = pack(pre.branch).meta
        /\ stash_data = pre.stash_data
        /\ stash_meta = pre.stash_meta

\* A call with a stash of vacant slots on a branch that pack() changes.
C10_Witness ==
    /\ pc = "evicted"
    /\ Length(pre.stash_meta) > 0
    /\ NonVacant(pre.stash_meta) = 0
    /\ branch_meta # pre.branch.meta

(***************************************************************************)
(* Claims about what the operations touch.                                 *)
(***************************************************************************)
\* A stash, a branch and a deepest array of the same lengths as the given
\* ones, holding nothing.
VacantSlots(s_meta) == [k \in DOMAIN s_meta |-> DefaultMeta]

VacantBranch(b_meta) == [i \in DOMAIN b_meta |-> VacantSlots(b_meta[i])]

\* The entries of a sequence.
Range(seq) == {seq[k] : k \in 1..Len(seq)}

\* C11: what an operation touches depends on the stash length, the branch
\* length and the bucket capacity only, not on vacancy flags or destination
\* leaves: evict_from_stash_to_branch calls pack once and then ct_insert with
\* a true flag once per stash index in order; prepare_deepest and
\* prepare_target (with bucket_has_empty_slot) visit the same positions as
\* on a stash and a branch of the same lengths holding nothing, and visit
\* every slot of every level they scan.
C11_AccessesDependOnShapeOnly ==
    /\ pc = "evicted" =>
           accesses = <<<<"pack">>>>
                          \o [k \in 1..Length(pre.stash_data) |-> <<"ct_insert", TRUE, k - 1>>]
    /\ pc = "deepest" =>
           /\ accesses = prepare_deepest_accesses(VacantSlots(stash_meta),
                                                  VacantBranch(branch_meta))
           /\ \A s \in 0..Length(branch_meta) : \A k \in DOMAIN LevelMeta(s) :
                  <<"slot", s, k>> \in Range(accesses)
    /\ pc = "target" =>
           /\ accesses = prepare_target_accesses(AllFloor, VacantBranch(branch_meta))
           /\ \A s \in DOMAIN branch_meta : \A k \in DOMAIN branch_meta[s] :
                  <<"slot", s, k>> \in Range(accesses)

\* prepare_target has scanned a branch with a full bucket, a bucket whose
\* first slot is vacant and a bucket whose last slot only is vacant, after
\* prepare_deepest found a block of the stash to move.
C11_Witness ==
    /\ pc = "target"
    /\ deepest_meta # AllFloor
    /\ \E i \in DOMAIN branch_meta : ~bucket_has_empty_slot(branch_meta[i])
    /\ \E i \in DOMAIN branch_meta : meta_is_vacant(branch_meta[i][0])
    /\ \E i \in DOMAIN branch_meta :
           /\ ~meta_is_vacant(branch_meta[i][0])
           /\ bucket_has_empty_slot(branch_meta[i])

(***************************************************************************)
(* Claims about the fixed tree.                                            *)
(***************************************************************************)
\* The array with the entries of a sequence, indexed from 0.
ArrayOf(seq) == [i \in 0..(Len(seq) - 1) |-> seq[i + 1]]

\* The leaf numbers of the slots of a bucket that are not vacant, in slot
\* order.
RECURSIVE BucketLeaves(_, _)
BucketLeaves(bucket_meta, idx) ==
    IF idx >= Length(bucket_meta) THEN <<>>
    ELSE (IF meta_is_vacant(bucket_meta[idx]) THEN <<>>
          ELSE <<meta_leaf_num(bucket_meta[idx])>>)
             \o BucketLeaves(bucket_meta, idx + 1)

\* The stash and the branch are those of the fixed-tree test.
IsFixedTreeOfTheTest ==
    /\ leaf = 16
    /\ Length(branch_meta) = 5
    /\ \A i \in DOMAIN branch_meta : Length(branch_meta[i]) = 4
    /\ [i \in DOMAIN branch_meta |-> BucketLeaves(branch_meta[i], 0)]
           = ArrayOf(<< <<>>, <<>>, <<19>>, <<18, 20>>, <<24, 27, 31, 30>> >>)
    /\ [k \in DOMAIN stash_meta |-> meta_leaf_num(stash_meta[k])]
           = ArrayOf(<<26, 23, 21, 21>>)

\* C12: on the branch of leaf 16 with 5 buckets of 4 slots holding the
\* leaves {}, {}, [19], [18, 20], [24, 27, 31, 30] (bucket 0 first) and the
\* stash with leaves [26, 23, 21, 21], prepare_deepest returns
\* [FLOOR, FLOOR, 3, 5, 5, FLOOR] and prepare_target on that result returns
\* [FLOOR, FLOOR, FLOOR, 2, FLOOR, 3].
C12_FixedTreeDeepestAndTarget ==
    IsFixedTreeOfTheTest =>
        /\ pc \in {"deepest", "target"} =>
               deepest_meta = ArrayOf(<<FLOOR_INDEX, FLOOR_INDEX, 3, 5, 5, FLOOR_INDEX>>)
        /\ pc = "target" =>
               target_meta = ArrayOf(<<FLOOR_INDEX, FLOOR_INDEX, FLOOR_INDEX, 2,
                                       FLOOR_INDEX, 3>>)

\* prepare_deepest and prepare_target have run on the tree of the test.
C12_Witness ==
    /\ IsFixedTreeOfTheTest
    /\ pc = "target"

(***************************************************************************)
(* Claims about the pure function and about the selectors' interface.      *)
(***************************************************************************)
\* C13: deterministic_get_next_branch_to_evict(h, t), for h >= 1 and every
\* iteration t, returns 2^h + rev_h(t mod 2^h): the result lies in
\* [2^h, 2^(h+1)), is periodic in t with period 2^h, and maps t in
\* 0..2^h-1 one-to-one onto the leaves; for h = 3 the values for t = 0..8
\* are 8, 12, 10, 14, 9, 13, 11, 15, 8.
C13_PureFunctionReversesTheLowBits ==
    test_height >= 1 =>
        /\ \A t \in 0..(Len(test_branches) - 1) :
               /\ test_branches[t + 1] =
                      Pow2(test_height) + rev_h(test_height, t % Pow2(test_height))
               /\ test_branches[t + 1] \in Leaves(test_height)
               /\ t >= Pow2(test_height) =>
                      test_branches[t + 1] = test_branches[t + 1 - Pow2(test_height)]
        /\ Len(test_branches) >= Pow2(test_height) =>
               /\ {test_branches[t + 1] : t \in 0..(Pow2(test_height) - 1)}
                      = Leaves(test_height)
               /\ \A t, u \in 0..(Pow2(test_height) - 1) :
                      t # u => test_branches[t + 1] # test_branches[u + 1]
        /\ (test_height = 3 /\ Len(test_branches) >= 9) =>
               SubSeq(test_branches, 1, 9) = <<8, 12, 10, 14, 9, 13, 11, 15, 8>>

\* The function was called for more than two periods of a tree of the
\* largest height.
C13_Witness ==
    /\ test_height = MaxHeight
    /\ Len(test_branches) > 2 * Pow2(test_height)

\* C15: a PathOramDeterministicEvictor created with tree height 0 returns
\* leaf 1 from every call of get_next_branch_to_evict.
C15_HeightZeroAlwaysLeafOne ==
    (selector = "deterministic" /\ tree_height = 0) =>
        /\ ~panicked
        /\ \A t \in 1..Len(returned) : returned[t] = 1

\* An evictor of height 0 was called often enough for its counter to wrap
\* more than once.
C15_Witness ==
    /\ selector = "deterministic"
    /\ tree_height = 0
    /\ Len(returned) >= 5

\* The fields of a selector and the leaves it has returned.
SelectorState ==
    <<selector, number_of_additional_branches_to_evict, branches_evicted,
      tree_height, tree_breadth, returned, panicked>>

\* C16: for both selectors, every call of
\* get_number_of_additional_branches_to_evict, at any point between calls
\* of get_next_branch_to_evict, returns the number the evictor (or the
\* creator that made it) was configured with, and changes no selector state.
C16_CountIsConfiguredAndCallChangesNothing ==
    [][counts_returned' # counts_returned =>
          /\ counts_returned' = Append(counts_returned, configured)
          /\ SelectorState' = SelectorState]_vars

\* A random evictor configured with a count other than 0 was asked for the
\* count before and after it chose a branch.
C16_Witness ==
    /\ selector = "random"
    /\ configured > 0
    /\ Len(counts_returned) >= 2
    /\ Len(returned) >= 1

(***************************************************************************)
(* Claims about bucket_has_empty_slot, the eviction order and the plan of  *)
(* prepare_target.                                                         *)
(***************************************************************************)
\* The number of vacant slots of a bucket.
VacantCount(bucket_meta) ==
    Cardinality({j \in DOMAIN bucket_meta : meta_is_vacant(bucket_meta[j])})

\* C14: bucket_has_empty_slot returns true if and only if at least one slot
\* of the bucket is vacant: true for a bucket of vacant slots, true for a
\* bucket with all slots but one occupied, false for a full bucket.
C14_EmptySlotIffSomeSlotVacant ==
    pc = "target" =>
        \A i \in DOMAIN branch_meta :
            /\ bucket_has_empty_slot(branch_meta[i]) <=> VacantCount(branch_meta[i]) >= 1
            /\ VacantCount(branch_meta[i]) = Length(branch_meta[i]) =>
                   bucket_has_empty_slot(branch_meta[i])
            /\ VacantCount(branch_meta[i]) = 1 => bucket_has_empty_slot(branch_meta[i])
            /\ VacantCount(branch_meta[i]) = 0 => ~bucket_has_empty_slot(branch_meta[i])

\* prepare_target has asked about a bucket of vacant slots, a bucket whose
\* first slot is its only vacant one, and a full bucket.
C14_Witness ==
    /\ pc = "target"
    /\ \E i \in DOMAIN branch_meta : VacantCount(branch_meta[i]) = Length(branch_meta[i])
    /\ \E i \in DOMAIN branch_meta :
           VacantCount(branch_meta[i]) = 1 /\ meta_is_vacant(branch_meta[i][0])
    /\ \E i \in DOMAIN branch_meta : VacantCount(branch_meta[i]) = 0

\* The stash and the branch of the last eviction once the branch is packed
\* and the stash slots below k have had their turn.
RECURSIVE EvictionAfter(_)
EvictionAfter(k) ==
    IF k = 0
    THEN [stash_data |-> pre.stash_data, stash_meta |-> pre.stash_meta,
          branch |-> pack(pre.branch)]
    ELSE path_oram_eviction_step(EvictionAfter(k - 1), k - 1)

\* The buckets of a branch that a block bound for leaf_num may occupy and
\* that have a vacant slot.
LegalWithRoom(branch, leaf_num) ==
    {i \in DOMAIN branch.meta :
        /\ i >= lowest_height_legal_index_impl(leaf_num, branch.leaf, Length(branch.meta))
        /\ VacantCount(branch.meta[i]) >= 1}

\* The least element of a set of bucket numbers: the deepest bucket.
Deepest(buckets) == CHOOSE d \in buckets : \A i \in buckets : d <= i

\* The turn of stash slot k moved its block into a vacant slot of bucket d
\* and changed nothing else.
MovedInto(before, after, k, d) ==
    /\ meta_is_vacant(after.stash_meta[k])
    /\ \A l \in DOMAIN before.stash_meta :
           l # k => after.stash_meta[l] = before.stash_meta[l]
    /\ \E j \in DOMAIN before.branch.meta[d] :
           /\ meta_is_vacant(before.branch.meta[d][j])
           /\ after.branch.meta[d][j] = before.stash_meta[k]
           /\ after.branch.data[d][j] = before.stash_data[k]
           /\ \A i \in DOMAIN before.branch.meta : \A l \in DOMAIN before.branch.meta[i] :
                  <<i, l>> # <<d, j>> =>
                      /\ after.branch.meta[i][l] = before.branch.meta[i][l]
                      /\ after.branch.data[i][l] = before.branch.data[i][l]

\* C17: evict_from_stash_to_branch is greedy and deepest-first: after
\* packing, the stash slots take their turn in index order; a non-vacant
\* block is moved into the deepest bucket that is legal for its leaf and has
\* a vacant slot at that moment, and stays in the stash, with nothing
\* changed, only if every bucket legal for it is full at that moment.
C17_EvictionIsGreedyDeepestFirst ==
    pc = "evicted" =>
        /\ [stash_data |-> stash_data, stash_meta |-> stash_meta, branch |-> Branch]
               = EvictionAfter(Length(pre.stash_meta))
        /\ \A k \in DOMAIN pre.stash_meta :
               LET before == EvictionAfter(k)
                   after == EvictionAfter(k + 1)
                   room == LegalWithRoom(before.branch,
                                         meta_leaf_num(before.stash_meta[k]))
               IN  /\ before.stash_meta[k] = pre.stash_meta[k]
                   /\ after.stash_meta[k] = stash_meta[k]
                   /\ IF meta_is_vacant(before.stash_meta[k]) THEN after = before
                      ELSE IF room = {} THEN after = before
                      ELSE MovedInto(before, after, k, Deepest(room))

\* Two blocks of the stash were bound for buckets with a single vacant
\* slot between them: the first got it, in a bucket above the deepest one
\* legal for it, and the second stayed in the stash.
C17_Witness ==
    /\ pc = "evicted"
    /\ Length(pre.stash_meta) = 2
    /\ ~meta_is_vacant(pre.stash_meta[0])
    /\ ~meta_is_vacant(pre.stash_meta[1])
    /\ meta_is_vacant(stash_meta[0])
    /\ ~meta_is_vacant(stash_meta[1])
    /\ LegalWithRoom(EvictionAfter(0).branch, meta_leaf_num(pre.stash_meta[1])) # {}
    /\ Deepest(LegalWithRoom(EvictionAfter(0).branch, meta_leaf_num(pre.stash_meta[0])))
           > lowest_height_legal_index_impl(meta_leaf_num(pre.stash_meta[0]), leaf,
                                            Length(branch_meta))

\* The loop state of prepare_target, [src, dest, target_meta], once the
\* buckets below k have been scanned.
RECURSIVE TargetScan(_)
TargetScan(k) ==
    IF k = 0
    THEN [src |-> FLOOR_INDEX, dest |-> FLOOR_INDEX, target_meta |-> AllFloor]
    ELSE prepare_target_step(TargetScan(k - 1), k - 1, deepest_meta, branch_meta)

\* C18: the plan of prepare_target never overfills a bucket: no two levels
\* have the same target other than FLOOR_INDEX; every level d that is the
\* target of a move has a vacant slot in the branch or is itself the source
\* of a move; and every pair (src, dest) the scan adopts at a bucket is
\* dispatched: target[src] = dest in the plan returned.
C18_PlanNeverOverfills ==
    pc = "target" =>
        /\ \A s, t \in Sources : s # t => target_meta[s] # target_meta[t]
        /\ \A s \in Sources :
               /\ target_meta[s] \in DOMAIN branch_meta
               /\ \/ VacantCount(branch_meta[target_meta[s]]) >= 1
                  \/ target_meta[target_meta[s]] # FLOOR_INDEX
        /\ \A k \in DOMAIN branch_meta :
               TargetScan(k + 1).dest = k =>
                   /\ TargetScan(k + 1).src \in DOMAIN target_meta
                   /\ target_meta[TargetScan(k + 1).src] = k

\* A block goes from the stash into a full bucket, out of which a block
\* goes into a bucket below, and some bucket with a vacant slot and a
\* deepest entry was passed over while a destination was pending.
C18_Witness ==
    /\ pc = "target"
    /\ Length(branch_meta) \in Sources
    /\ \E s \in Sources : VacantCount(branch_meta[target_meta[s]]) = 0
    /\ \E k \in DOMAIN branch_meta :
           /\ VacantCount(branch_meta[k]) >= 1
           /\ deepest_meta[k] # FLOOR_INDEX
           /\ TargetScan(k + 1).dest # k

====
